---- MODULE Spec2Model ----
(***************************************************************************)
(* Job scraper core of fit4work: ScraperManager (scrape_site,             *)
(* scrape_all_sites, _store_job_listings, get_job_listings), the store    *)
(* behind it (table job_listings, url unique), and the adapters'          *)
(* scrape() with the Selenium driver they own.                            *)
(*                                                                         *)
(* Three specifications share the module:                                   *)
(*   Spec         the manager and the store; an adapter's scrape() is a   *)
(*                call that returns a list of listing dicts or raises.    *)
(*   SpecSeq      the same with a single caller, on more urls.             *)
(*   SpecAdapter  one adapter instance running scrape() page by page.     *)
(***************************************************************************)
EXTENDS Integers, Sequences, FiniteSets, TLC

VARIABLES
    store,         \* table job_listings: sequence of committed rows, id = index
    clock,         \* datetime.utcnow(), in ticks
    pc,            \* per thread: position inside scrape_site / get_job_listings
    site,          \* per thread: the site_name argument of scrape_site
    job_listings,  \* per thread: the list scraper.scrape() returned
    scraped,       \* per thread: "no" | "returned" | "raised" (scraper.scrape())
    sess,          \* per thread: the SQLAlchemy session of _store_job_listings
    persist,       \* per thread: how the _store_job_listings call stands
    ret,           \* per thread: what the public operation gave its caller
    allpc,         \* scrape_all_sites: "idle" | "running" | "returned"
    results,       \* scrape_all_sites: the results dict built by as_completed
    query          \* the arguments and fate of the last get_job_listings call

mvars == <<store, clock, pc, site, job_listings, scraped, sess, persist, ret,
           allpc, results, query>>

VARIABLES
    akind,         \* which adapter class runs: "FlexJobs" | "We Work Remotely"
    cfg,           \* site_config / scraping_settings of the adapter
    apc,           \* position inside scrape()
    runs,          \* scrape() calls made on this adapter instance
    page_num,      \* loop variable of FlexJobsScraper.scrape
    found,         \* len(job_containers) of the current page
    idx,           \* position of the container loop in job_containers
    job_listing,   \* the dict under construction for the current container
    acc,           \* the local list job_listings that scrape() returns
    driver,        \* self.driver: "None" | "driver"
    procs,         \* browser processes alive that this adapter started
    acquired,      \* history: this scrape() used the browser
    firstFailed,   \* history: the first index fetch of this scrape() failed
    abortedAt,     \* history: the page whose index fetch failed in this scrape(), or 0
    requests,      \* history: index pages requested in this scrape()
    released,      \* history: _close_selenium_driver has run while a driver was cached
    call           \* history: the last call of a browser / fetch method of the adapter

avars == <<akind, cfg, apc, runs, page_num, found, idx, job_listing, acc, driver,
           procs, acquired, firstFailed, abortedAt, requests, released, call>>

VARIABLES
    config,        \* ScraperManager construction: config["job_sites"]
    registry,      \* ScraperManager construction: self.scrapers being built
    ipos,          \* ScraperManager construction: position of the loop in job_sites
    ctor_failed,   \* history: the positions whose adapter constructor raised
    task,          \* ThreadPoolExecutor: per submitted task "queued" | "running" | "done"
    collected,     \* ThreadPoolExecutor: the futures as_completed has handed over
    poolpc,        \* ThreadPoolExecutor: "idle" | "open" | "returned"
    date_now,      \* _parse_date: datetime.now()
    date_string,   \* _parse_date: the argument, as its whitespace-separated parts
    parsed         \* _parse_date: what it returned, or "pending"

xvars == <<config, registry, ipos, ctor_failed, task, collected, poolpc, date_now, date_string,
          parsed>>

vars == <<mvars, avars, xvars>>

----------------------------------------------------------------------------
(* Bounds of the model *)

MaxBatch == 2      \* longest list an adapter returns in Spec
MaxClock == 2      \* number of public calls (clock ticks) explored
MaxPages == 2      \* largest max_pages_per_site explored in SpecAdapter
MaxVaried == 1     \* containers per page whose markup and detail page vary
MaxRuns == 2       \* scrape() calls on one adapter instance
MaxSites == 3      \* longest config["job_sites"] explored in SpecRegistry
MaxTasks == 5      \* most tasks one scrape_all_sites call submits in SpecPool
MaxAmount == 3     \* largest N of "N days ago" given to _parse_date in SpecDate
MaxDay == 1        \* latest day of the clock in SpecDate
MaxTod == 2        \* latest time of day of the clock in SpecDate; 0 is midnight
MaxProcs == 2      \* most browser processes alive at once explored in SpecBrowser

----------------------------------------------------------------------------
(* Values *)

None == "None"            \* Python None / SQL NULL

\* A datetime: a day number and a time of day, 0 being 00:00:00.000000.
Date(day, tod) == [state |-> "date", day |-> day, tod |-> tod]

\* _parse_date returned None.
NoDate == [state |-> "none", day |-> 0, tod |-> 0]

\* _parse_date has not been called.
NotParsed == [state |-> "pending", day |-> 0, tod |-> 0]
Absent == "<absent>"      \* the key is not in the dict

Urls == {"u1", "u2"}
Titles == {"t1", "t2"}
Descs == {"d1"}

\* Listing dicts as the adapters build them: title and url always present,
\* "description" only when the detail page gave one
\* (flexjobs_scraper.py:85-92 and 101-102).  Of each url there are two
\* versions: one scraped with its detail page, one retitled and without.
Listings ==
    {l \in [url : Urls, title : Titles, description : Descs \cup {Absent}] :
        (l.title = "t1") <=> (l.description # Absent)}

RECURSIVE SeqsUpTo(_, _)
SeqsUpTo(S, n) ==
    IF n = 0 THEN {<<>>}
    ELSE LET shorter == SeqsUpTo(S, n - 1)
         IN  shorter \cup {Append(q, x) : q \in {p \in shorter : Len(p) = n - 1}, x \in S}

\* The lists scrape() can return.  With concurrent tasks (Spec) they are
\* explored on the one url the sites share, with a single caller (SpecSeq) on
\* every url.
SharedUrls == {"u1"}
Batches == SeqsUpTo(Listings, MaxBatch)
SharedBatches == SeqsUpTo({l \in Listings : l.url \in SharedUrls}, MaxBatch)

\* The lists explored for a race between two sites (SpecRace): a listing on
\* the url the sites share, followed by listings on another url.
RaceBatches ==
    {b \in Batches : \A i \in 1..Len(b) : (b[i].url \in SharedUrls) <=> (i = 1)}

Columns == {"url", "title", "description", "scraped_date", "source_site", "is_active"}

----------------------------------------------------------------------------
(* Configuration and registry *)

job_sites == <<
    [name |-> "Remote.co", enabled |-> TRUE],
    [name |-> "We Work Remotely", enabled |-> TRUE],
    [name |-> "Disabled Site", enabled |-> FALSE],
    [name |-> "Unknown Board", enabled |-> TRUE] >>

scraper_map == {"Remote.co", "We Work Remotely", "RemoteOK", "FlexJobs"}

\* ScraperManager._initialize_scrapers: enabled and known names.
initialize_scrapers ==
    {job_sites[i].name : i \in {j \in 1..Len(job_sites) :
        job_sites[j].enabled /\ job_sites[j].name \in scraper_map}}

scrapers == initialize_scrapers

SiteNames == {job_sites[i].name : i \in 1..Len(job_sites)} \cup {"Non-existent Site"}

\* The threads that run scrape_site: the caller's own thread, and the pool
\* workers of scrape_all_sites, one task per registered site (a worker is
\* named after the site of its task).  The caller blocks in scrape_all_sites
\* until the pool is done.
Callers == {"main"}
Threads == scrapers \cup Callers

\* What scraper.scrape() can do, seen from scrape_site.  The concrete adapters
\* of src/ catch everything and return a list; the adapter the manager's test
\* installs for "Remote.co" raises.
MayRaise == {"Remote.co"}
AdapterOutcomes(s, lists) ==
    {[kind |-> "list", val |-> b] : b \in lists}
    \cup (IF s \in MayRaise THEN {[kind |-> "raise", val |-> <<>>]} ELSE {})

----------------------------------------------------------------------------
(* Results of public operations *)

Returned(v) == [kind |-> "list", val |-> v]
Raised == [kind |-> "raise", val |-> <<>>]
NoRet == [kind |-> "none", val |-> <<>>]

NoSess == [i |-> 0, ins |-> <<>>, upd |-> <<>>, opened |-> 0]
NoPersist == [state |-> "none", job_listings |-> <<>>, site_name |-> None, at |-> 0]
NoQuery == [filters |-> [source_site |-> None], limit |-> 0, offset |-> 0, outcome |-> "none"]

----------------------------------------------------------------------------
(* The store: table job_listings and one session's unit of work *)

GetOr(job_data, k) == IF job_data[k] = Absent THEN None ELSE job_data[k]

\* JobListing(...) of the insert branch.
NewRow(job_data, site_name, now) ==
    [url |-> job_data.url,
     title |-> job_data.title,
     description |-> GetOr(job_data, "description"),
     scraped_date |-> now,
     source_site |-> site_name,
     is_active |-> TRUE]

\* Mutant: the update branch also leaves the title alone.
ChangesNoTitle(job_data) ==
    [k \in {c \in DOMAIN job_data : job_data[c] # Absent /\ c \notin {"url", "title"}}
        |-> job_data[k]]

\* The (key, value) pairs the update branch setattr()s: every key of the dict
\* except "url".
Changes(job_data) ==
    [k \in {c \in DOMAIN job_data : job_data[c] # Absent /\ c # "url"} |-> job_data[k]]

\* Mutant: the update writes the whole dict, a key it lacks as None.
ApplyChangesWhole(row, ch) ==
    [c \in Columns |->
        IF c \in DOMAIN ch THEN ch[c] ELSE IF c = "description" THEN None ELSE row[c]]

\* Lines 145-147: setattr(existing_job, key, value) for the pairs of the dict;
\* a column no pair names keeps the row's value.
ApplyChanges(row, ch) ==
    [c \in Columns |-> IF c \in DOMAIN ch THEN ch[c] ELSE row[c]]

\* session.query(JobListing).filter_by(url=u).first(): 0 when there is none.
FirstByUrl(rows, u) ==
    IF \E i \in 1..Len(rows) : rows[i].url = u
    THEN CHOOSE i \in 1..Len(rows) :
            /\ rows[i].url = u
            /\ \A j \in 1..Len(rows) : rows[j].url = u => i <= j
    ELSE 0

\* Mutant: the table has no unique constraint on url.
UniqueOkNone(rows, ins) == TRUE

\* Column url is unique=True: the pending inserts of a session can be
\* committed only if none of them repeats a url of the table or of each other.
UniqueOk(rows, ins) ==
    \A j \in 1..Len(ins) :
        /\ \A i \in 1..Len(rows) : rows[i].url # ins[j].url
        /\ \A k \in 1..Len(ins) : k # j => ins[k].url # ins[j].url

\* Mutant: a commit that carries updates loses the new rows.
CommittedNoInsert(rows, s) ==
    [i \in 1..Len(rows) |->
        IF i \in DOMAIN s.upd THEN ApplyChanges(rows[i], s.upd[i]) ELSE rows[i]]
    \o (IF DOMAIN s.upd = {} THEN s.ins ELSE <<>>)

\* The table after session.commit() of unit of work s.
Committed(rows, s) ==
    [i \in 1..Len(rows) |->
        IF i \in DOMAIN s.upd THEN ApplyChanges(rows[i], s.upd[i]) ELSE rows[i]]
    \o s.ins

\* Mutant: the session does not flush before the lookup, which then sees
\* only the table.
StoreOneNoFlush(rows, s, job_data, site_name, now) ==
    LET existing == FirstByUrl(rows, job_data.url)
    IN  IF existing # 0
        THEN [s EXCEPT !.i = @ + 1,
                       !.upd = (existing :>
                                  (Changes(job_data) @@
                                   (IF existing \in DOMAIN s.upd THEN s.upd[existing] ELSE <<>>)))
                                @@ s.upd]
        ELSE [s EXCEPT !.i = @ + 1,
                       !.ins = Append(@, NewRow(job_data, site_name, now))]

\* One iteration of the for loop of _store_job_listings on unit of work s.
\* The session autoflushes before the lookup of line 141 (sessionmaker's
\* default, line 46), so a row added earlier in the same call is found and
\* takes the update branch.
StoreOne(rows, s, job_data, site_name, now) ==
    LET existing == FirstByUrl(rows, job_data.url)
        pending == FirstByUrl(s.ins, job_data.url)
    IN  IF existing # 0
        THEN [s EXCEPT !.i = @ + 1,
                       !.upd = (existing :>
                                  (Changes(job_data) @@
                                   (IF existing \in DOMAIN s.upd THEN s.upd[existing] ELSE <<>>)))
                                @@ s.upd]
        ELSE IF pending # 0
        THEN [s EXCEPT !.i = @ + 1,
                       !.ins[pending] = ApplyChanges(@, Changes(job_data))]
        ELSE [s EXCEPT !.i = @ + 1,
                       !.ins = Append(@, NewRow(job_data, site_name, now))]

----------------------------------------------------------------------------
(* get_job_listings: the query *)

Filters == [source_site : scrapers \cup {None}]
Limits == {1, 100}
Offsets == {0, 1}

\* The rows the filters keep (source_site is compared exactly).
Matching(rows, filters) ==
    {i \in 1..Len(rows) : filters.source_site = None \/ rows[i].source_site = filters.source_site}

\* order_by(scraped_date.desc()): every order of the kept rows that is
\* non-increasing in scraped_date (the order of ties is the database's).
Ordered(rows, S) ==
    {q \in [1..Cardinality(S) -> S] :
        /\ \A a, b \in 1..Cardinality(S) : a # b => q[a] # q[b]
        /\ \A a, b \in 1..Cardinality(S) :
              a < b => rows[q[a]].scraped_date >= rows[q[b]].scraped_date}

\* Mutant: the page starts at the first row whatever the offset.
PageNoOffset(rows, q, limit, offset) ==
    LET last == IF limit < Len(q) THEN limit ELSE Len(q)
    IN  [k \in 1..last |-> rows[q[k]]]

\* limit(limit).offset(offset) on an ordered list of row ids.
Page(rows, q, limit, offset) ==
    LET last == IF offset + limit < Len(q) THEN offset + limit ELSE Len(q)
    IN  [k \in 1..(IF last > offset THEN last - offset ELSE 0) |-> rows[q[offset + k]]]

----------------------------------------------------------------------------
(* Adapter variables are idle in Spec *)

NoListing ==
    [page |-> 0, idx |-> 0, container |-> None, title |-> None, url |-> None,
     description |-> FALSE, detail |-> "none"]

\* No browser or fetch method has been called on the adapter.  op is the
\* method, out how it went, had whether self.driver was set when it was
\* entered, started whether it started a browser process, slept whether it
\* ran the politeness sleep, hot whether the adapter's previous request had
\* no sleep after it when this call was entered, unslept whether the
\* adapter's latest request has had no sleep after it, and url the address a
\* fetch was made for.
NoUrl == [from |-> "none", page_num |-> 0]

NoCall ==
    [op |-> "none", out |-> "none", had |-> FALSE, started |-> FALSE, slept |-> FALSE,
     hot |-> FALSE, unslept |-> FALSE, url |-> NoUrl]

AIdle ==
    /\ akind = "FlexJobs"
    /\ cfg = [max_pages |-> 1, pagination |-> FALSE, force_selenium |-> FALSE]
    /\ apc = "idle"
    /\ runs = 0
    /\ page_num = 0
    /\ found = 0
    /\ idx = 0
    /\ job_listing = NoListing
    /\ acc = <<>>
    /\ driver = None
    /\ procs = 0
    /\ acquired = FALSE
    /\ firstFailed = FALSE
    /\ abortedAt = 0
    /\ requests = 0
    /\ released = FALSE
    /\ call = NoCall

MIdle ==
    /\ store = <<>>
    /\ clock = 0
    /\ pc = [t \in Threads |-> "idle"]
    /\ site = [t \in Threads |-> None]
    /\ job_listings = [t \in Threads |-> <<>>]
    /\ scraped = [t \in Threads |-> "no"]
    /\ sess = [t \in Threads |-> NoSess]
    /\ persist = [t \in Threads |-> NoPersist]
    /\ ret = [t \in Threads |-> NoRet]
    /\ allpc = "idle"
    /\ results = <<>>
    /\ query = NoQuery

\* The variables of the manager's construction, of the worker pool and of
\* _parse_date are idle outside their own specifications.
XIdle ==
    /\ config = <<>>
    /\ registry = <<>>
    /\ ipos = 0
    /\ ctor_failed = {}
    /\ task = <<>>
    /\ collected = {}
    /\ poolpc = "idle"
    /\ date_now = [day |-> 0, tod |-> 0]
    /\ date_string = <<>>
    /\ parsed = NotParsed

Init == MIdle /\ AIdle /\ XIdle

----------------------------------------------------------------------------
(* ScraperManager.scrape_site *)

\* The except clause of scrape_site: log and return [].
ScrapeSiteExcept == Returned(<<>>)

\* A caller invokes scrape_site(name).
ScrapeSiteCall(t, name) ==
    /\ t \in Callers
    /\ allpc = "idle"
    /\ pc[t] = "idle"
    /\ clock < MaxClock
    /\ clock' = clock + 1
    /\ pc' = [pc EXCEPT ![t] = "entry"]
    /\ site' = [site EXCEPT ![t] = name]
    /\ UNCHANGED <<store, job_listings, scraped, sess, persist, ret, allpc, results, query, avars, xvars>>

\* Mutant: the registry is not consulted.
RegisteredAny(name) == TRUE

\* Line 83: site_name in self.scrapers.
Registered(name) == name \in scrapers

\* Lines 83-85: an unregistered name returns [] at once.
ScrapeSiteEntry(t) ==
    /\ pc[t] = "entry"
    /\ IF ~Registered(site[t])
       THEN /\ pc' = [pc EXCEPT ![t] = "done"]
            /\ ret' = [ret EXCEPT ![t] = Returned(<<>>)]
       ELSE /\ pc' = [pc EXCEPT ![t] = "scrape"]
            /\ ret' = ret
    /\ UNCHANGED <<store, clock, site, job_listings, scraped, sess, persist, allpc,
                   results, query, avars, xvars>>

\* Mutant: scrape_site returns the list without storing it.
AfterScrapeSkip == "stored"

\* Lines 90-94: with the list of scrape() in hand, the next statement is the
\* call of _store_job_listings.
AfterScrape == "store"

\* Line 90: scraper.scrape() returns a list, or raises into the except clause.
AdapterScrapeFrom(t, lists) ==
    /\ pc[t] = "scrape"
    /\ \E out \in AdapterOutcomes(site[t], lists) :
        IF out.kind = "raise"
        THEN /\ scraped' = [scraped EXCEPT ![t] = "raised"]
             /\ ret' = [ret EXCEPT ![t] = ScrapeSiteExcept]
             /\ pc' = [pc EXCEPT ![t] = "done"]
             /\ job_listings' = job_listings
        ELSE /\ scraped' = [scraped EXCEPT ![t] = "returned"]
             /\ job_listings' = [job_listings EXCEPT ![t] = out.val]
             /\ pc' = [pc EXCEPT ![t] = AfterScrape]
             /\ ret' = ret
    /\ UNCHANGED <<store, clock, site, sess, persist, allpc, results, query, avars, xvars>>

AdapterScrape(t) == AdapterScrapeFrom(t, SharedBatches)
AdapterScrapeWide(t) == AdapterScrapeFrom(t, Batches)
AdapterScrapeRace(t) == AdapterScrapeFrom(t, RaceBatches)

----------------------------------------------------------------------------
(* ScraperManager._store_job_listings *)

\* Line 94: self._store_job_listings(job_listings, site_name).
StoreCall(state, listings, name) ==
    [state |-> state, job_listings |-> listings, site_name |-> name, at |-> 0]

\* Line 137: session = self.Session(), outside the try.  When it raises, the
\* exception leaves _store_job_listings and lands in scrape_site's except.
OpenSession(t) ==
    /\ pc[t] = "store"
    /\ \/ /\ sess' = [sess EXCEPT ![t] = [NoSess EXCEPT !.i = 1, !.opened = clock]]
          /\ persist' = [persist EXCEPT ![t] = StoreCall("open", job_listings[t], site[t])]
          /\ pc' = [pc EXCEPT ![t] = "loop"]
          /\ ret' = ret
       \/ /\ persist' = [persist EXCEPT ![t] = StoreCall("openfail", job_listings[t], site[t])]
          /\ ret' = [ret EXCEPT ![t] = ScrapeSiteExcept]
          /\ pc' = [pc EXCEPT ![t] = "done"]
          /\ sess' = sess
    /\ UNCHANGED <<store, clock, site, job_listings, scraped, allpc, results, query, avars, xvars>>

\* Lines 139-167: one pass of the for loop.
StoreListing(t) ==
    /\ pc[t] = "loop"
    /\ sess[t].i <= Len(persist[t].job_listings)
    /\ sess' = [sess EXCEPT ![t] =
                  StoreOne(store, @, persist[t].job_listings[@.i],
                           persist[t].site_name, clock)]
    /\ UNCHANGED <<store, clock, pc, site, job_listings, scraped, persist, ret, allpc,
                   results, query, avars, xvars>>

\* Mutant: the except clause does not roll back, what was flushed stays.
RollbackFlushed(rows, s) == Committed(rows, s)

\* Mutant: the rollback keeps the new rows whose url the table does not have.
RollbackKeepsNew(rows, s) ==
    rows \o SelectSeq(s.ins, LAMBDA r : \A i \in 1..Len(rows) : rows[i].url # r.url)

\* Lines 171-175: except -> session.rollback(); finally -> session.close().
\* The unit of work is dropped, the table is not touched.
Rollback(rows, s) == rows

\* A statement of the try block raises (lookup, flush of an insert or update).
StoreFail(t) ==
    /\ pc[t] = "loop"
    /\ sess[t].i <= Len(persist[t].job_listings)
    /\ store' = Rollback(store, sess[t])
    /\ sess' = [sess EXCEPT ![t] = NoSess]
    /\ persist' = [persist EXCEPT ![t].state = "rolledback", ![t].at = sess[t].i]
    /\ pc' = [pc EXCEPT ![t] = "stored"]
    /\ UNCHANGED <<clock, site, job_listings, scraped, ret, allpc, results, query, avars, xvars>>

\* Line 169: session.commit().  It raises IntegrityError when a pending insert
\* repeats a url, and may fail for any other reason of the database.
Commit(t) ==
    /\ pc[t] = "loop"
    /\ sess[t].i > Len(persist[t].job_listings)
    /\ \/ /\ UniqueOk(store, sess[t].ins)
          /\ store' = Committed(store, sess[t])
          /\ persist' = [persist EXCEPT ![t].state = "committed"]
       \/ /\ ~UniqueOk(store, sess[t].ins)
          /\ store' = Rollback(store, sess[t])
          /\ persist' = [persist EXCEPT ![t].state = "integrity"]
       \/ /\ store' = Rollback(store, sess[t])
          /\ persist' = [persist EXCEPT ![t].state = "rolledback"]
    /\ sess' = [sess EXCEPT ![t] = NoSess]
    /\ pc' = [pc EXCEPT ![t] = "stored"]
    /\ UNCHANGED <<clock, site, job_listings, scraped, ret, allpc, results, query, avars, xvars>>

\* Mutant: scrape_site returns only what it found stored.
ScrapeSiteResultEmpty(listings) == Returned(<<>>)

\* Line 96: return job_listings.
ScrapeSiteResult(listings) == Returned(listings)

ScrapeSiteReturn(t) ==
    /\ pc[t] = "stored"
    /\ ret' = [ret EXCEPT ![t] = ScrapeSiteResult(job_listings[t])]
    /\ pc' = [pc EXCEPT ![t] = "done"]
    /\ UNCHANGED <<store, clock, site, job_listings, scraped, sess, persist, allpc,
                   results, query, avars, xvars>>

----------------------------------------------------------------------------
(* ScraperManager.get_job_listings *)

\* Line 189: session = self.Session() stands before the try, so a failure to
\* open the session leaves get_job_listings as an exception.
GetJobListingsOpenFails == Raised

\* Lines 216-218: the except clause of get_job_listings returns [].
QueryExcept == Returned(<<>>)

\* get_job_listings(filters, limit, offset) and how the call went.
QueryCall(filters, limit, offset, outcome) ==
    [filters |-> filters, limit |-> limit, offset |-> offset, outcome |-> outcome]

\* Line 189 opens the session outside the try: a failure there propagates.
\* A failure of the query is caught and gives [].
GetJobListings(t) ==
    /\ t \in Callers
    /\ allpc = "idle"
    /\ pc[t] = "idle"
    /\ \E filters \in Filters, limit \in Limits, offset \in Offsets :
        \/ /\ ret' = [ret EXCEPT ![t] = GetJobListingsOpenFails]
           /\ query' = QueryCall(filters, limit, offset, "openfail")
        \/ /\ ret' = [ret EXCEPT ![t] = QueryExcept]
           /\ query' = QueryCall(filters, limit, offset, "queryfail")
        \/ /\ \E q \in Ordered(store, Matching(store, filters)) :
                 ret' = [ret EXCEPT ![t] = Returned(Page(store, q, limit, offset))]
           /\ query' = QueryCall(filters, limit, offset, "ok")
    /\ pc' = [pc EXCEPT ![t] = "done"]
    /\ site' = [site EXCEPT ![t] = "get_job_listings"]
    /\ UNCHANGED <<store, clock, job_listings, scraped, sess, persist, allpc, results,
                   avars, xvars>>

\* The caller has its result and is free for the next call.
CallerDone(t) ==
    /\ t \in Callers
    /\ pc[t] = "done"
    /\ pc' = [pc EXCEPT ![t] = "idle"]
    /\ site' = [site EXCEPT ![t] = None]
    /\ job_listings' = [job_listings EXCEPT ![t] = <<>>]
    /\ scraped' = [scraped EXCEPT ![t] = "no"]
    /\ persist' = [persist EXCEPT ![t] = NoPersist]
    /\ ret' = [ret EXCEPT ![t] = NoRet]
    /\ query' = NoQuery
    /\ UNCHANGED <<store, clock, sess, allpc, results, avars, xvars>>

----------------------------------------------------------------------------
(* ScraperManager.scrape_all_sites *)

\* Mutant: only the first site of the registry is submitted.
SubmittedFirst == {"Remote.co"}

\* Lines 111-113: future_to_site has one future per key of self.scrapers.
Submitted == scrapers

\* Lines 111-113: one scrape_site task per registered site is submitted.
ScrapeAllCall ==
    /\ allpc = "idle"
    /\ \A t \in Threads : pc[t] = "idle"
    /\ clock < MaxClock
    /\ clock' = clock + 1
    /\ allpc' = "running"
    /\ pc' = [t \in Threads |-> IF t \in Submitted THEN "entry" ELSE pc[t]]
    /\ site' = [t \in Threads |-> IF t \in Submitted THEN t ELSE site[t]]
    /\ results' = <<>>
    /\ UNCHANGED <<store, job_listings, scraped, sess, persist, ret, query, avars, xvars>>

\* Mutant: the result of a finished future is dropped.
FutureResultLost(r) == <<>>

\* Lines 117-122: future.result(), or [] when it raises.
FutureResult(r) == IF r.kind = "list" THEN r.val ELSE <<>>

\* Lines 115-122: as_completed hands over a finished future; its result is
\* stored under the site name.
Collect(s) ==
    /\ allpc = "running"
    /\ s \in Submitted
    /\ pc[s] = "done"
    /\ s \notin DOMAIN results
    /\ results' = (s :> FutureResult(ret[s])) @@ results
    /\ UNCHANGED <<store, clock, pc, site, job_listings, scraped, sess, persist, ret,
                   allpc, query, avars, xvars>>

\* Line 127: return results, once every future has been collected.
ScrapeAllReturn ==
    /\ allpc = "running"
    /\ DOMAIN results = Submitted
    /\ allpc' = "returned"
    /\ UNCHANGED <<store, clock, pc, site, job_listings, scraped, sess, persist, ret,
                   results, query, avars, xvars>>

\* The caller of scrape_all_sites has its map; the pool is gone.
ScrapeAllDone ==
    /\ allpc = "returned"
    /\ allpc' = "idle"
    /\ results' = <<>>
    /\ pc' = [t \in Threads |-> IF t \in scrapers THEN "idle" ELSE pc[t]]
    /\ site' = [t \in Threads |-> IF t \in scrapers THEN None ELSE site[t]]
    /\ job_listings' = [t \in Threads |-> IF t \in scrapers THEN <<>> ELSE job_listings[t]]
    /\ scraped' = [t \in Threads |-> IF t \in scrapers THEN "no" ELSE scraped[t]]
    /\ persist' = [t \in Threads |-> IF t \in scrapers THEN NoPersist ELSE persist[t]]
    /\ ret' = [t \in Threads |-> IF t \in scrapers THEN NoRet ELSE ret[t]]
    /\ UNCHANGED <<store, clock, sess, query, avars, xvars>>

Next ==
    \/ \E t \in Threads, name \in SiteNames : ScrapeSiteCall(t, name)
    \/ \E t \in Threads : ScrapeSiteEntry(t)
    \/ \E t \in Threads : AdapterScrape(t)
    \/ \E t \in Threads : OpenSession(t)
    \/ \E t \in Threads : StoreListing(t)
    \/ \E t \in Threads : StoreFail(t)
    \/ \E t \in Threads : Commit(t)
    \/ \E t \in Threads : ScrapeSiteReturn(t)
    \/ \E t \in Threads : GetJobListings(t)
    \/ \E t \in Threads : CallerDone(t)
    \/ ScrapeAllCall
    \/ \E s \in scrapers : Collect(s)
    \/ ScrapeAllReturn
    \/ ScrapeAllDone

Spec == Init /\ [][Next]_vars

\* ui/app.py:140-151: the route /scrape calls scrape_site(site_name) on the
\* one ScraperManager of the application, in the thread that serves the
\* request.  The server gives every request a thread of its own, so a request
\* does not wait for the requests before it; here the identities of Threads
\* stand for request threads.
RequestScrapeSite(t, name) ==
    /\ pc[t] = "idle"
    /\ allpc = "idle"
    /\ clock < MaxClock
    /\ clock' = clock + 1
    /\ pc' = [pc EXCEPT ![t] = "entry"]
    /\ site' = [site EXCEPT ![t] = name]
    /\ UNCHANGED <<store, job_listings, scraped, sess, persist, ret, allpc, results, query,
                   avars, xvars>>

\* Requests to /scrape that name a site, served at the same time.
NextWeb ==
    \/ \E t \in Threads, name \in SiteNames : RequestScrapeSite(t, name)
    \/ \E t \in Threads : ScrapeSiteEntry(t)
    \/ \E t \in Threads : AdapterScrape(t)
    \/ \E t \in Threads : OpenSession(t)
    \/ \E t \in Threads : StoreListing(t)
    \/ \E t \in Threads : StoreFail(t)
    \/ \E t \in Threads : Commit(t)
    \/ \E t \in Threads : ScrapeSiteReturn(t)

SpecWeb == Init /\ [][NextWeb]_vars

\* scrape_all_sites alone, on lists in which two sites share a url and carry
\* another url beside it.
NextRace ==
    \/ ScrapeAllCall
    \/ \E t \in scrapers : ScrapeSiteEntry(t)
    \/ \E t \in scrapers : AdapterScrapeRace(t)
    \/ \E t \in scrapers : OpenSession(t)
    \/ \E t \in scrapers : StoreListing(t)
    \/ \E t \in scrapers : StoreFail(t)
    \/ \E t \in scrapers : Commit(t)
    \/ \E t \in scrapers : ScrapeSiteReturn(t)
    \/ \E s \in scrapers : Collect(s)
    \/ ScrapeAllReturn
    \/ ScrapeAllDone

SpecRace == Init /\ [][NextRace]_vars

\* A single caller, one call after the other, on every url.
NextSeq ==
    \/ \E name \in SiteNames : ScrapeSiteCall("main", name)
    \/ ScrapeSiteEntry("main")
    \/ AdapterScrapeWide("main")
    \/ OpenSession("main")
    \/ StoreListing("main")
    \/ StoreFail("main")
    \/ Commit("main")
    \/ ScrapeSiteReturn("main")
    \/ GetJobListings("main")
    \/ CallerDone("main")

SpecSeq == Init /\ [][NextSeq]_vars

----------------------------------------------------------------------------
(* The adapters: BaseScraper, FlexJobsScraper, WeWorkRemotelyScraper *)

AdapterKinds == {"FlexJobs", "We Work Remotely"}

\* scraping_settings["max_pages_per_site"], site_config["pagination"]["enabled"]
\* and scraping_settings["use_selenium_for_dynamic_sites"].
Cfgs == [max_pages : 0..MaxPages, pagination : BOOLEAN, force_selenium : BOOLEAN]

\* flexjobs_scraper.py:129: a page with fewer containers is the last one.
LastPageBelow == 10

\* len(job_containers) of an index page.
PageSizes == {0, 1, LastPageBelow - 1, LastPageBelow}

\* Markup of a container: complete; without the title element; with a title
\* element that has no text; without the description link (or without its
\* href); or such that its processing raises.
ContainerKinds == {"ok", "notitle", "emptytitle", "nolink", "broken"}

\* The first MaxVaried containers of a page vary, the others are complete.
KindsAt(i) == IF i <= MaxVaried THEN ContainerKinds ELSE {"ok"}

\* The use_selenium argument of the adapter's _get_page_content calls:
\* True in FlexJobsScraper (lines 54, 98), default False in
\* WeWorkRemotelyScraper (lines 39, 81).
UseSeleniumArg == akind = "FlexJobs"

\* base_scraper.py:96.
UsesSelenium == UseSeleniumArg \/ cfg.force_selenium

\* _get_page_content: _get_selenium_driver raises ("startfail", only when no
\* driver is cached), driver.get / session.get raises ("getfail"), or the page
\* comes back ("ok").  Each failure is logged and raised again.
FetchOutcomes ==
    (IF UsesSelenium /\ driver = None THEN {"startfail"} ELSE {}) \cup {"getfail", "ok"}

\* The outcomes explored for the containers that do not vary.
FetchOutcomesAt(i) == IF i <= MaxVaried THEN FetchOutcomes ELSE {"ok"}

\* _get_selenium_driver: the driver is created once and cached in self.driver.
DriverAfter(out) ==
    IF UsesSelenium /\ out # "startfail" THEN "driver" ELSE driver

ProcsAfter(out) ==
    IF UsesSelenium /\ driver = None /\ out # "startfail" THEN procs + 1 ELSE procs

\* Lines 95-102: driver.get(url) or session.get(url) is called unless
\* _get_selenium_driver raised.
Issued(out) == out # "startfail"

\* Mutant: the politeness sleep stands in a finally clause.
SleepsAlways(out) == TRUE

\* Lines 104-106: the politeness sleep stands inside the try, after the
\* fetch; an exception raised before it skips it (lines 109-111).
Sleeps(out) == out = "ok"

\* site_config["job_listings_url"], taken as it is.
ListingsUrl == [from |-> "job_listings_url", page_num |-> 0]

\* urljoin(base_url, href) of a container.
DescriptionUrl == [from |-> "description_url", page_num |-> 0]

\* Mutant: the pattern is filled with the number of the page before.
PageUrlOffByOne(n) ==
    IF n = 1 THEN ListingsUrl ELSE [from |-> "pagination.pattern", page_num |-> n - 1]

\* flexjobs_scraper.py:44-49: page 1 is job_listings_url, a later page is
\* site_config["pagination"]["pattern"].format(page_num=page_num).
PageUrl(n) ==
    IF n = 1 THEN ListingsUrl ELSE [from |-> "pagination.pattern", page_num |-> n]

\* The effect of one _get_page_content(url) call with outcome out on the
\* browser and on the pace of the adapter's requests.
Fetch(out, url) ==
    /\ driver' = DriverAfter(out)
    /\ procs' = ProcsAfter(out)
    /\ acquired' = (acquired \/ (UsesSelenium /\ out # "startfail"))
    /\ call' = [op |-> "fetch", out |-> out, had |-> driver # None,
                started |-> ProcsAfter(out) > procs, slept |-> Sleeps(out),
                hot |-> call.unslept,
                unslept |-> IF Issued(out) THEN ~Sleeps(out) ELSE call.unslept,
                url |-> url]

\* urljoin(base_url, href): without a link element href is None and the
\* result is base_url itself.
UrlOf(kind) == IF kind = "nolink" THEN "base_url" ELSE "link"

\* container.select_one(job_title): the element, or None.
TitleElem(kind) == IF kind = "notitle" THEN None ELSE "element"

\* _extract_text: get_text(strip=True) of the element.
TitleOf(kind) == IF kind = "emptytitle" THEN "" ELSE "title"

\* Python truth of a str or None.
Truthy(v) == v # None /\ v # ""

\* Line 80: if not job_title_elem or not description_url: continue.
Skips(kind) == TitleElem(kind) = None \/ ~Truthy(UrlOf(kind))

\* Mutant: the except clause hands back an empty list.
AbortDiscards(l) == <<>>

\* The outer except clause leaves job_listings as it is.
AfterAbort(l) == l

\* Mutant: the page loop runs one page too far.
PastLastPageOffByOne == page_num > cfg.max_pages + 1

\* Line 42: for page_num in range(1, max_pages + 1) is exhausted.
PastLastPage == page_num > cfg.max_pages

\* Mutant: no page counts as the last one.
ShortPageNever(n) == FALSE

\* Line 129: len(job_containers) < 10.
ShortPage(n) == n < LastPageBelow

\* Mutant: the outer except clause raises again.
OuterExceptReraise == "raised"

\* The outer except clause of scrape(): log, then fall through to
\* return job_listings.
OuterExcept == "returned"

\* break out of the page loop / return job_listings.
Break == "returned"

AInit ==
    /\ akind \in AdapterKinds
    /\ cfg \in Cfgs
    /\ apc = "idle"
    /\ runs = 0
    /\ page_num = 0
    /\ found = 0
    /\ idx = 0
    /\ job_listing = NoListing
    /\ acc = <<>>
    /\ driver = None
    /\ procs = 0
    /\ acquired = FALSE
    /\ firstFailed = FALSE
    /\ abortedAt = 0
    /\ requests = 0
    /\ released = FALSE
    /\ call = NoCall

\* scrape() is called on the adapter instance: job_listings = [].
ScrapeBegin ==
    /\ apc \in {"idle", "returned"}
    /\ runs < MaxRuns
    /\ runs' = runs + 1
    /\ apc' = "page"
    /\ page_num' = 1
    /\ found' = 0
    /\ idx' = 0
    /\ job_listing' = NoListing
    /\ acc' = <<>>
    /\ acquired' = FALSE
    /\ firstFailed' = FALSE
    /\ abortedAt' = 0
    /\ requests' = 0
    /\ UNCHANGED <<akind, cfg, driver, procs, released, call, mvars, xvars>>

\* The index page came back with n containers: none ends the scrape, otherwise
\* the container loop starts.
IndexPage(n) ==
    /\ found' = n
    /\ IF n = 0
       THEN apc' = Break /\ idx' = idx
       ELSE apc' = "items" /\ idx' = 1
    /\ UNCHANGED <<firstFailed, abortedAt, acc>>

\* The index fetch raised: the outer except clause takes over.
IndexFailed ==
    /\ apc' = OuterExcept
    /\ firstFailed' = (firstFailed \/ page_num = 1)
    /\ abortedAt' = page_num
    /\ acc' = AfterAbort(acc)
    /\ UNCHANGED <<found, idx>>

\* FlexJobsScraper.scrape, lines 42-61: one pass of the page loop up to the
\* container loop.
FlexJobsPage ==
    /\ akind = "FlexJobs"
    /\ apc = "page"
    /\ IF PastLastPage \/ (page_num # 1 /\ ~cfg.pagination)
       THEN /\ apc' = Break
            /\ UNCHANGED <<found, idx, driver, procs, acquired, firstFailed, abortedAt,
                           requests, acc, call>>
       ELSE \E out \in FetchOutcomes :
              /\ requests' = requests + 1
              /\ Fetch(out, PageUrl(page_num))
              /\ IF out = "ok" THEN \E n \in PageSizes : IndexPage(n) ELSE IndexFailed
    /\ UNCHANGED <<akind, cfg, runs, page_num, job_listing, released, mvars, xvars>>

\* WeWorkRemotelyScraper.scrape, lines 35-46: the single index page.
WWRPage ==
    /\ akind = "We Work Remotely"
    /\ apc = "page"
    /\ \E out \in FetchOutcomes :
          /\ requests' = requests + 1
          /\ Fetch(out, ListingsUrl)
          /\ IF out = "ok" THEN \E n \in PageSizes : IndexPage(n) ELSE IndexFailed
    /\ UNCHANGED <<akind, cfg, runs, page_num, job_listing, released, mvars, xvars>>

\* Lines 66-92 (FlexJobs) / 51-77 (We Work Remotely): the basic fields of one
\* container.  An exception is caught by the container's own except clause; a
\* container the test of line 80 rejects is skipped; otherwise the dict is built.
Container ==
    /\ apc = "items"
    /\ idx <= found
    /\ \E kind \in KindsAt(idx) :
          IF kind = "broken" \/ Skips(kind)
          THEN /\ idx' = idx + 1
               /\ UNCHANGED <<apc, job_listing>>
          ELSE /\ job_listing' = [page |-> page_num, idx |-> idx, container |-> kind,
                                   title |-> TitleOf(kind), url |-> UrlOf(kind),
                                   description |-> FALSE, detail |-> "none"]
               /\ apc' = "detail"
               /\ idx' = idx
    /\ UNCHANGED <<akind, cfg, runs, page_num, found, acc, driver, procs, acquired,
                   firstFailed, abortedAt, requests, released, call, mvars, xvars>>

\* The dict after the detail page: "description" is set when the page came
\* back and has the description element.
WithDetail(l, out, has_description) ==
    [l EXCEPT !.description = (out = "ok" /\ has_description), !.detail = out]

\* Mutant: a failed detail fetch is caught by the container's except clause,
\* which drops the listing.
AfterDetailDrop(l, listings, out, has_description) ==
    IF out = "ok" THEN Append(listings, WithDetail(l, out, has_description))
    ELSE listings

\* Lines 118-122: the inner except clause logs a failed detail fetch, and
\* job_listings.append(job_listing) follows in every case.
AfterDetail(l, listings, out, has_description) ==
    Append(listings, WithDetail(l, out, has_description))

\* Lines 95-123 / 80-106: the detail page of the container.  A failed fetch is
\* caught by the inner except clause; the dict is appended in every case.
Detail ==
    /\ apc = "detail"
    /\ \E out \in FetchOutcomesAt(idx), has_description \in BOOLEAN :
          /\ (idx > MaxVaried => has_description)
          /\ Fetch(out, DescriptionUrl)
          /\ acc' = AfterDetail(job_listing, acc, out, has_description)
    /\ job_listing' = NoListing
    /\ idx' = idx + 1
    /\ apc' = "items"
    /\ UNCHANGED <<akind, cfg, runs, page_num, found, firstFailed, abortedAt, requests,
                   released, mvars, xvars>>

\* Lines 128-131: after the last container FlexJobs goes on to the next page
\* unless the page was short; We Work Remotely is done.
PageEnd ==
    /\ apc = "items"
    /\ idx > found
    /\ IF akind = "FlexJobs" /\ ~ShortPage(found)
       THEN apc' = "page" /\ page_num' = page_num + 1
       ELSE apc' = Break /\ page_num' = page_num
    /\ UNCHANGED <<akind, cfg, runs, found, idx, job_listing, acc, driver, procs,
                   acquired, firstFailed, abortedAt, requests, released, call, mvars,
                   xvars>>

\* driver.quit() ends the browser process, or raises; when it raises the
\* process may be gone or may still be there.
QuitOutcomes == {"ok", "raised", "raised_alive"}

\* Mutant: a driver whose quit() raised stays cached.
DriverAfterCloseKept(out) == IF out = "ok" THEN None ELSE driver

\* Line 81: the finally clause clears self.driver however quit() went.
DriverAfterClose(out) == None

\* Lines 73-81, _close_selenium_driver: nothing without a driver; otherwise
\* quit() is called, a failure is logged, and self.driver is cleared.
Close ==
    IF driver = None
    THEN /\ call' = [NoCall EXCEPT !.op = "release", !.out = "noop",
                                   !.unslept = call.unslept]
         /\ UNCHANGED <<driver, procs, released>>
    ELSE \E out \in QuitOutcomes :
            /\ driver' = DriverAfterClose(out)
            /\ procs' = IF out = "raised_alive" THEN procs ELSE procs - 1
            /\ released' = TRUE
            /\ call' = [NoCall EXCEPT !.op = "release", !.out = out, !.had = TRUE,
                                      !.unslept = call.unslept]

\* BaseScraper.__del__ -> _close_selenium_driver: runs when the adapter object
\* is collected, which cannot happen while scrape() runs on it.
Del ==
    /\ apc \in {"idle", "returned"}
    /\ apc' = "collected"
    /\ Close
    /\ UNCHANGED <<akind, cfg, runs, page_num, found, idx, job_listing, acc, acquired,
                   firstFailed, abortedAt, requests, mvars, xvars>>

NextAdapter ==
    \/ ScrapeBegin
    \/ FlexJobsPage
    \/ WWRPage
    \/ Container
    \/ Detail
    \/ PageEnd
    \/ Del

\* A fresh adapter of either class, under any configuration.
InitAdapter == MIdle /\ AInit /\ XIdle

SpecAdapter == InitAdapter /\ [][NextAdapter]_vars

\* The statements of scrape().  It runs in one thread, so while it has a next
\* statement it executes it; every fetch returns or fails.
ScrapeStep == FlexJobsPage \/ WWRPage \/ Container \/ Detail \/ PageEnd

SpecAdapterFair == InitAdapter /\ [][NextAdapter]_vars /\ WF_vars(ScrapeStep)

----------------------------------------------------------------------------
(* The browser methods of BaseScraper, called in any order on one adapter *)

\* Lines 49-71, _get_selenium_driver: a cached driver is returned as it is;
\* otherwise webdriver.Chrome starts a browser process and the driver is
\* cached, or the start fails and the exception is raised again.
GetSeleniumDriver ==
    /\ apc = "idle"
    /\ IF driver # None
       THEN /\ call' = [NoCall EXCEPT !.op = "acquire", !.out = "cached", !.had = TRUE,
                                      !.unslept = call.unslept]
            /\ UNCHANGED <<driver, procs>>
       ELSE \/ /\ procs < MaxProcs
               /\ driver' = "driver"
               /\ procs' = procs + 1
               /\ call' = [NoCall EXCEPT !.op = "acquire", !.out = "ok", !.started = TRUE,
                                         !.unslept = call.unslept]
            \/ /\ call' = [NoCall EXCEPT !.op = "acquire", !.out = "startfail",
                                         !.unslept = call.unslept]
               /\ UNCHANGED <<driver, procs>>
    /\ UNCHANGED <<akind, cfg, apc, runs, page_num, found, idx, job_listing, acc, acquired,
                   firstFailed, abortedAt, requests, released, mvars, xvars>>

\* Lines 73-81, _close_selenium_driver.
CloseSeleniumDriver ==
    /\ apc = "idle"
    /\ Close
    /\ UNCHANGED <<akind, cfg, apc, runs, page_num, found, idx, job_listing, acc, acquired,
                   firstFailed, abortedAt, requests, mvars, xvars>>

\* Lines 83-113, _get_page_content with the adapter's use_selenium argument.
GetPageContent ==
    /\ apc = "idle"
    /\ \E out \in FetchOutcomes, url \in {ListingsUrl, DescriptionUrl} :
          /\ ProcsAfter(out) <= MaxProcs
          /\ Fetch(out, url)
    /\ UNCHANGED <<akind, cfg, apc, runs, page_num, found, idx, job_listing, acc,
                   firstFailed, abortedAt, requests, released, mvars, xvars>>

NextBrowser ==
    \/ GetSeleniumDriver
    \/ CloseSeleniumDriver
    \/ GetPageContent

\* A fresh adapter of either class, under any configuration.
InitBrowser == MIdle /\ AInit /\ XIdle

SpecBrowser == InitBrowser /\ [][NextBrowser]_vars

----------------------------------------------------------------------------
(* ScraperManager.__init__ and _initialize_scrapers on any configuration *)

\* Entries of config["job_sites"]: two names with an implementation and one
\* without, each enabled or not.
SiteConfigs == [name : {"Remote.co", "FlexJobs", "Unknown Board"}, enabled : BOOLEAN]

Configs == SeqsUpTo(SiteConfigs, MaxSites)

\* scraper_map[site_name](site_config, self.config["scraping_settings"]).
Adapter(site_config) ==
    [site_config |-> site_config, scraping_settings |-> "scraping_settings"]

\* Mutant: the enabled flag is not looked at.
RegistersDisabled(site_config) == site_config.name \in scraper_map

\* Lines 61-62: if site_config["enabled"]: if site_name in scraper_map.
Registers(site_config) == site_config.enabled /\ site_config.name \in scraper_map

\* __init__: self.scrapers = {}, then _initialize_scrapers() starts its loop.
InitRegistry ==
    /\ MIdle
    /\ AIdle
    /\ config \in Configs
    /\ registry = <<>>
    /\ ipos = 1
    /\ ctor_failed = {}
    /\ task = <<>>
    /\ collected = {}
    /\ poolpc = "idle"
    /\ date_now = [day |-> 0, tod |-> 0]
    /\ date_string = <<>>
    /\ parsed = NotParsed

\* Lines 59-69: one pass of the loop over config["job_sites"].  The adapter
\* is constructed inside a try; when the constructor raises, the site is
\* logged and left out.
InitializeScraper ==
    /\ ipos <= Len(config)
    /\ LET site_config == config[ipos]
       IN  IF Registers(site_config)
           THEN \/ /\ registry' = (site_config.name :> Adapter(site_config)) @@ registry
                   /\ ctor_failed' = ctor_failed
                \/ /\ registry' = registry
                   /\ ctor_failed' = ctor_failed \cup {ipos}
           ELSE UNCHANGED <<registry, ctor_failed>>
    /\ ipos' = ipos + 1
    /\ UNCHANGED <<config, task, collected, poolpc, date_now, date_string, parsed,
                   mvars, avars>>

NextRegistry == InitializeScraper

SpecRegistry == InitRegistry /\ [][NextRegistry]_vars

----------------------------------------------------------------------------
(* The worker pool of scrape_all_sites *)

\* Line 110: ThreadPoolExecutor(max_workers=4).
max_workers == 4

\* The tasks of the call, numbered in the order of self.scrapers.keys().
Tasks == DOMAIN task

TasksIn(state) == {i \in Tasks : task[i] = state}

\* Mutant: the executor starts a thread for every work item.
WorkerFreeAlways == TRUE

\* The executor keeps at most max_workers threads; each runs one work item at
\* a time.
WorkerFree == Cardinality(TasksIn("running")) < max_workers

\* scrape_all_sites is entered with some number of registered sites.
InitPool ==
    /\ MIdle
    /\ AIdle
    /\ config = <<>>
    /\ registry = <<>>
    /\ ipos = 0
    /\ ctor_failed = {}
    /\ \E n \in 1..MaxTasks : task = [i \in 1..n |-> "new"]
    /\ collected = {}
    /\ poolpc = "submitting"
    /\ date_now = [day |-> 0, tod |-> 0]
    /\ date_string = <<>>
    /\ parsed = NotParsed

\* Lines 111-113: executor.submit(self.scrape_site, site_name), site by site.
PoolSubmit ==
    /\ poolpc = "submitting"
    /\ TasksIn("new") # {}
    /\ LET i == CHOOSE j \in TasksIn("new") : \A k \in TasksIn("new") : j <= k
       IN  task' = [task EXCEPT ![i] = "queued"]
    /\ UNCHANGED <<config, registry, ipos, ctor_failed, collected, poolpc, date_now,
                   date_string, parsed, mvars, avars>>

\* Lines 111-113 are through: the loop over as_completed starts.
PoolSubmitted ==
    /\ poolpc = "submitting"
    /\ TasksIn("new") = {}
    /\ poolpc' = "collecting"
    /\ UNCHANGED <<config, registry, ipos, ctor_failed, task, collected, date_now,
                   date_string, parsed, mvars, avars>>

\* A thread of the pool takes a queued work item and calls scrape_site.
TaskStart(i) ==
    /\ task[i] = "queued"
    /\ WorkerFree
    /\ task' = [task EXCEPT ![i] = "running"]
    /\ UNCHANGED <<config, registry, ipos, ctor_failed, collected, poolpc, date_now,
                   date_string, parsed, mvars, avars>>

\* scrape_site returns in its thread; the future is done.
TaskFinish(i) ==
    /\ task[i] = "running"
    /\ task' = [task EXCEPT ![i] = "done"]
    /\ UNCHANGED <<config, registry, ipos, ctor_failed, collected, poolpc, date_now,
                   date_string, parsed, mvars, avars>>

\* Lines 115-122: as_completed yields a finished future.
PoolCollect(i) ==
    /\ poolpc = "collecting"
    /\ task[i] = "done"
    /\ i \notin collected
    /\ collected' = collected \cup {i}
    /\ UNCHANGED <<config, registry, ipos, ctor_failed, task, poolpc, date_now,
                   date_string, parsed, mvars, avars>>

\* as_completed is exhausted, the with block is left (shutdown(wait=True)),
\* and line 127 returns.
PoolReturn ==
    /\ poolpc = "collecting"
    /\ collected = Tasks
    /\ poolpc' = "returned"
    /\ UNCHANGED <<config, registry, ipos, ctor_failed, task, collected, date_now,
                   date_string, parsed, mvars, avars>>

NextPool ==
    \/ PoolSubmit
    \/ PoolSubmitted
    \/ \E i \in Tasks : TaskStart(i)
    \/ \E i \in Tasks : TaskFinish(i)
    \/ \E i \in Tasks : PoolCollect(i)
    \/ PoolReturn

SpecPool == InitPool /\ [][NextPool]_vars

----------------------------------------------------------------------------
(* BaseScraper._parse_date on relative dates *)

\* A date string is kept as the list of its blank-separated lower-case words,
\* which is what strip(), lower() and split() make of it; <<>> is "".
DayUnits == {"day", "days"}
WeekUnits == {"week", "weeks"}
MonthUnits == {"month", "months"}
Units == DayUnits \cup WeekUnits \cup MonthUnits

AmountWords == {ToString(n) : n \in 0..MaxAmount} \cup {"two"}

DateStrings ==
    {<<>>, <<"today">>, <<"yesterday">>, <<"posted", "today">>, <<"ago">>,
     <<"not", "a", "date">>, <<"days", "ago">>}
    \cup {<<a, u, "ago">> : a \in AmountWords, u \in Units \cup {"years"}}
    \cup {<<"posted", a, "days", "ago">> : a \in AmountWords}

\* substring in date_string.lower(), for a substring that is a whole word.
HasWord(text, w) == \E i \in 1..Len(text) : text[i] = w

\* int(parts[0]) succeeds on a decimal numeral and raises ValueError otherwise.
IsInt(word) == \E n \in 0..MaxAmount : ToString(n) = word

IntOf(word) == CHOOSE n \in 0..MaxAmount : ToString(n) = word

\* Lines 198-203: the days one unit stands for.
DaysPer(unit) == IF unit \in DayUnits THEN 1 ELSE IF unit \in WeekUnits THEN 7 ELSE 30

\* Mutant: "N unit ago" is cut to the start of its day.
AgoTruncated(now, days) == Date(now.day - days, 0)

\* Lines 199, 201, 203: datetime.now() - timedelta(days=...).
Ago(now, days) == Date(now.day - days, now.tod)

\* Lines 144-210 with format_string None. No string of DateStrings matches
\* one of the common_formats, so the loop of lines 178-182 falls through.
ParseDate(text, now) ==
    IF text = <<>> THEN NoDate
    ELSE IF HasWord(text, "today") THEN Date(now.day, 0)
    ELSE IF HasWord(text, "yesterday") THEN Date(now.day - 1, 0)
    ELSE IF HasWord(text, "ago")
         THEN IF Len(text) >= 3 /\ text[2] \in Units
              THEN IF IsInt(text[1])
                   THEN Ago(now, IntOf(text[1]) * DaysPer(text[2]))
                   ELSE NoDate
              ELSE NoDate
    ELSE NoDate

\* _parse_date is about to be called with some string at some instant.
InitDate ==
    /\ MIdle
    /\ AIdle
    /\ config = <<>>
    /\ registry = <<>>
    /\ ipos = 0
    /\ ctor_failed = {}
    /\ task = <<>>
    /\ collected = {}
    /\ poolpc = "idle"
    /\ date_now \in [day : 0..MaxDay, tod : 0..MaxTod]
    /\ date_string \in DateStrings
    /\ parsed = NotParsed

\* One call of _parse_date(date_string).
ParseDateCall ==
    /\ parsed = NotParsed
    /\ parsed' = ParseDate(date_string, date_now)
    /\ UNCHANGED <<config, registry, ipos, ctor_failed, task, collected, poolpc,
                   date_now, date_string, mvars, avars>>

NextDate == ParseDateCall

SpecDate == InitDate /\ [][NextDate]_vars

----------------------------------------------------------------------------
(* Properties of the manager and the store *)

UrlsOf(batch) == {batch[i].url : i \in 1..Len(batch)}
RowsFor(rows, u) == {i \in 1..Len(rows) : rows[i].url = u}
LastFor(batch, u) ==
    batch[CHOOSE i \in 1..Len(batch) :
            /\ batch[i].url = u
            /\ \A j \in 1..Len(batch) : batch[j].url = u => j <= i]
KeysPresent(l) == {k \in DOMAIN l : l[k] # Absent} \ {"url"}
CommitStep(t) == persist[t].state = "open" /\ persist'[t].state = "committed"
Finished == {"committed", "rolledback", "integrity"}

\* C2: in every reachable state of the table, whatever the interleaving of the
\* tasks' transactions, no two rows carry the same url.
UrlUnique ==
    \A i, j \in 1..Len(store) : i # j => store[i].url # store[j].url

\* C2 witness: two concurrent tasks wrote the same url; one committed, the
\* other was refused by the unique constraint.
UrlRaceSeen ==
    \E a, b \in scrapers :
        /\ a # b
        /\ persist[a].state = "committed"
        /\ persist[b].state = "integrity"
        /\ Len(store) = 1

ProvenanceOfLastWrite ==
    [][\A t \in Threads : CommitStep(t) =>
        \A i \in 1..Len(store') :
            store'[i].url \in UrlsOf(persist[t].job_listings) =>
                /\ store'[i].source_site = persist[t].site_name
                /\ store'[i].scraped_date \in sess[t].opened..clock]_vars

\* C5: a step of a _store_job_listings call that does not commit leaves the
\* table as it is; when the call fails (lookup, insert, update or commit) the
\* table is untouched and the call returns normally to scrape_site.
BatchAtomic ==
    [][\A t \in Threads :
        /\ (sess'[t] # sess[t] /\ persist'[t].state # "committed") => store' = store
        /\ (persist[t].state = "open" /\ persist'[t].state \in {"rolledback", "integrity"})
              => (store' = store /\ pc'[t] = "stored")]_vars

\* C5 witness: a batch failed on its second listing, after the first had been
\* added to the session, while the table holds a row of another site.
BatchFailureSeen ==
    \E t \in Threads :
        /\ persist[t].state = "rolledback"
        /\ persist[t].at = 2
        /\ Len(store) >= 1
        /\ \A i \in 1..Len(store) : store[i].source_site # persist[t].site_name

\* C6: when scrape_all_sites returns, a site whose adapter raised maps to [],
\* and a site whose adapter returned its list and whose store call came back
\* maps to exactly that list.
ScrapeAllIsolation ==
    allpc = "returned" =>
        \A s \in scrapers :
            /\ s \in DOMAIN results
            /\ scraped[s] = "raised" => results[s] = <<>>
            /\ (scraped[s] = "returned" /\ persist[s].state \in Finished)
                  => results[s] = job_listings[s]

\* C6 witness: scrape_all_sites returned with one adapter having raised and the
\* other site carrying its non-empty list.
IsolationSeen ==
    /\ allpc = "returned"
    /\ scraped["Remote.co"] = "raised"
    /\ scraped["We Work Remotely"] = "returned"
    /\ Len(results["We Work Remotely"]) = MaxBatch

\* C7 as stated: no public operation ever hands its caller an exception.
NeverRaises ==
    \A t \in Threads : ret[t].kind # "raise"

\* C8: scrape_site with an unregistered name returns [] in its first step,
\* without calling an adapter, opening a session or changing the table.
UnknownSiteInert ==
    [][\A t \in Threads :
        (pc[t] = "entry" /\ site[t] \notin scrapers /\ pc'[t] # pc[t]) =>
            /\ pc'[t] = "done"
            /\ ret'[t] = Returned(<<>>)
            /\ scraped'[t] = "no"
            /\ persist'[t] = NoPersist
            /\ sess' = sess
            /\ store' = store
            /\ job_listings' = job_listings]_vars

\* C8 witness: a call with an unregistered name has returned.
UnknownSiteSeen ==
    /\ pc["main"] = "done"
    /\ site["main"] = "Non-existent Site"
    /\ ret["main"] = Returned(<<>>)

\* C9: _store_job_listings is called only after scrape() returned, with the
\* list it returned and the requested site name, at most once per scrape_site
\* call; scrape_site does not return a scraped list before that call is over,
\* and once it has committed or rolled back the caller gets that same list.
ScrapeStoreReturn ==
    /\ [](\A t \in Threads :
            /\ persist[t].state # "none" =>
                  /\ scraped[t] = "returned"
                  /\ persist[t].job_listings = job_listings[t]
                  /\ persist[t].site_name = site[t]
            /\ (pc[t] = "done" /\ scraped[t] = "returned") =>
                  persist[t].state \notin {"none", "open"}
            /\ (pc[t] = "done" /\ persist[t].state \in Finished) =>
                  ret[t] = Returned(job_listings[t]))
    /\ [][\A t \in Threads :
            (persist'[t].state = "open" /\ persist[t].state # "open")
                => persist[t].state = "none"]_vars

\* C9 witness: a scrape_site call returned a full list after its commit.
ScrapeStoreReturnSeen ==
    \E t \in Threads :
        /\ pc[t] = "done"
        /\ persist[t].state = "committed"
        /\ Len(ret[t].val) = MaxBatch
        /\ ret[t].val = job_listings[t]

----------------------------------------------------------------------------
(* Properties of the adapters *)

\* C1 as stated: when scrape() has returned from a run that used the browser,
\* the browser process is gone and the adapter holds no driver.
BrowserReleasedOnReturn ==
    (apc = "returned" /\ acquired) => (driver = None /\ procs = 0)

\* C10: scrape() never raises, whatever fetches fail and whatever the markup;
\* when the first index fetch of a run fails, the list it returns is empty.
ScrapeNeverRaises ==
    /\ apc # "raised"
    /\ (apc = "returned" /\ firstFailed) => acc = <<>>

\* C10 witness: the second scrape() on an adapter has returned after its first
\* index fetch failed.
FirstFetchFailedSeen ==
    /\ apc = "returned"
    /\ firstFailed
    /\ runs = 2
    /\ acc = <<>>

\* C11: when the index fetch of a page n >= 2 fails, scrape() returns at once
\* with job_listings exactly as accumulated so far; what it returns are
\* listings of pages 1..n-1 only, in the order of pages and containers.
AbortKeepsProgress ==
    /\ [][(abortedAt = 0 /\ abortedAt' >= 2) => (apc' = "returned" /\ acc' = acc)]_vars
    /\ []((apc = "returned" /\ abortedAt >= 2) =>
            /\ requests = abortedAt
            /\ \A i \in 1..Len(acc) : acc[i].page \in 1..(abortedAt - 1)
            /\ \A i, j \in 1..Len(acc) :
                  i < j => \/ acc[i].page < acc[j].page
                           \/ (acc[i].page = acc[j].page /\ acc[i].idx < acc[j].idx))

\* C11 witness: the fetch of page 2 failed and scrape() returned the listings
\* of the full first page.
AbortSeen ==
    /\ apc = "returned"
    /\ abortedAt = 2
    /\ Len(acc) >= LastPageBelow - MaxVaried
    /\ \A i \in 1..Len(acc) : acc[i].page = 1

\* C12 as stated: every record scrape() returns has a non-empty title and a
\* non-empty url, and none comes from a container without title element or
\* without description link.
WellFormedRecords ==
    \A i \in 1..Len(acc) :
        /\ Truthy(acc[i].title)
        /\ Truthy(acc[i].url)
        /\ acc[i].container \notin {"notitle", "nolink"}

\* C13: once page 1 has come back with at least one container but fewer than
\* the threshold, exactly one index page has been requested, and the run
\* neither leaves page 1 nor requests another index page.
ShortPageStops ==
    /\ []((page_num = 1 /\ found >= 1 /\ found < LastPageBelow) => requests = 1)
    /\ [][(page_num = 1 /\ found >= 1 /\ found < LastPageBelow)
             => (page_num' = 1 /\ requests' <= requests)]_vars

\* C13 witness: FlexJobs, pagination enabled and more than one page allowed,
\* returned after a first page one container short of the threshold.
ShortPageSeen ==
    /\ apc = "returned"
    /\ akind = "FlexJobs"
    /\ cfg.pagination
    /\ cfg.max_pages > 1
    /\ page_num = 1
    /\ found = LastPageBelow - 1
    /\ requests = 1
    /\ Len(acc) >= LastPageBelow - 1 - MaxVaried

Running == apc \in {"page", "items", "detail"}

\* C14 as stated: a run never requests more index pages than max_pages_per_site,
\* and a running scrape() eventually returns.
PagesWithinMax ==
    /\ [](requests <= cfg.max_pages)
    /\ (Running ~> (apc = "returned"))

\* C14 amended: FlexJobs never requests more index pages than
\* max_pages_per_site, We Work Remotely requests its single index page
\* whatever that setting is, and a running scrape() eventually returns.
PagesWithinLoop ==
    /\ [](requests <= (IF akind = "FlexJobs" THEN cfg.max_pages ELSE 1))
    /\ (Running ~> (apc = "returned"))

\* C14 witness: FlexJobs returned because the page limit was reached, every
\* page requested having been full.
PageLimitSeen ==
    /\ apc = "returned"
    /\ akind = "FlexJobs"
    /\ cfg.max_pages = MaxPages
    /\ requests = MaxPages
    /\ page_num = MaxPages + 1
    /\ found = LastPageBelow

----------------------------------------------------------------------------
(* Further properties of the manager and the store *)

\* C15: the commit of a batch of two listings, one on the url of a row that
\* carries another title and one on a url that has no row, leaves the old row
\* in place with the new title, adds exactly one row for the new url, and
\* changes no other row: the table grows by exactly one row.
MixedUpsertCount ==
    [][\A t \in Threads :
        LET b == persist[t].job_listings
        IN  (/\ CommitStep(t)
             /\ Len(b) = 2
             /\ \E o \in 1..2 :
                  /\ RowsFor(store, b[o].url) # {}
                  /\ \A i \in RowsFor(store, b[o].url) : store[i].title # b[o].title
                  /\ RowsFor(store, b[3 - o].url) = {})
            => /\ Len(store') = Len(store) + 1
               /\ \A o \in 1..2 :
                    /\ Cardinality(RowsFor(store', b[o].url)) = 1
                    /\ \A i \in RowsFor(store', b[o].url) : store'[i].title = b[o].title
               /\ \A i \in 1..Len(store) :
                    /\ store'[i].url = store[i].url
                    /\ store[i].url \notin UrlsOf(b) => store'[i] = store[i]
               /\ store'[Len(store')].url \in UrlsOf(b)
               /\ store'[Len(store')].source_site = persist[t].site_name]_vars

\* C15 witness: a committed batch of two retitled a row of an earlier call and
\* added a row of this call; the table holds these two rows.
MixedUpsertSeen ==
    /\ persist["main"].state = "committed"
    /\ Len(persist["main"].job_listings) = 2
    /\ Len(store) = 2
    /\ store[1].url \in UrlsOf(persist["main"].job_listings)
    /\ store[1].scraped_date < clock
    /\ store[1].title = "t2"
    /\ store[1].description = "d1"
    /\ store[2].url \in UrlsOf(persist["main"].job_listings)
    /\ store[2].scraped_date = clock

\* The positions of config whose adapter was constructed.
Constructed ==
    {i \in 1..Len(config) :
        /\ i < ipos
        /\ config[i].enabled
        /\ config[i].name \in scraper_map
        /\ i \notin ctor_failed}

\* C16: during construction no disabled or unknown name is ever in the
\* registry; when _initialize_scrapers is through, the keys are exactly the
\* names that are enabled, known and whose constructor succeeded, and each
\* adapter holds the site configuration it was built from (the last such entry
\* of its name) and the shared scraping settings.
RegistryExact ==
    /\ \A n \in DOMAIN registry :
          /\ n \in scraper_map
          /\ \E i \in 1..Len(config) : config[i].name = n /\ config[i].enabled
    /\ ipos > Len(config) =>
          /\ DOMAIN registry = {config[i].name : i \in Constructed}
          /\ \A n \in DOMAIN registry :
                /\ registry[n].scraping_settings = "scraping_settings"
                /\ \E i \in Constructed :
                      /\ config[i].name = n
                      /\ registry[n].site_config = config[i]
                      /\ \A j \in Constructed : config[j].name = n => j <= i

\* C16 witness: construction is through on a configuration with a disabled
\* known site, an enabled unknown site and an enabled known site, and only
\* the last one is registered.
RegistrySeen ==
    /\ ipos > Len(config)
    /\ Len(config) = MaxSites
    /\ \E i \in 1..Len(config) : ~config[i].enabled /\ config[i].name \in scraper_map
    /\ \E i \in 1..Len(config) : config[i].enabled /\ config[i].name \notin scraper_map
    /\ DOMAIN registry = {"FlexJobs"}

\* C17: a call of scrape_all_sites starts scrape_site(s) for every registered
\* site s and for nothing else, no task is started again while the call runs,
\* and the map it returns has exactly the registry's keys.
ScrapeAllCoverage ==
    /\ [](allpc = "returned" => DOMAIN results = scrapers)
    /\ [][(allpc = "idle" /\ allpc' = "running") =>
            /\ \A s \in scrapers : pc'[s] = "entry" /\ site'[s] = s
            /\ \A t \in Threads \ scrapers : pc'[t] = pc[t]]_vars
    /\ [][(allpc = "running" /\ allpc' = "running") =>
            \A t \in Threads : pc'[t] = "entry" => pc[t] = "entry"]_vars

\* C17 witness: scrape_all_sites returned a map with both registered sites,
\* both adapters having returned, one list full and one empty.
ScrapeAllCoverageSeen ==
    /\ allpc = "returned"
    /\ \A s \in scrapers : scraped[s] = "returned"
    /\ Len(results["Remote.co"]) = MaxBatch
    /\ results["We Work Remotely"] = <<>>

\* C18: at no instant do more than max_workers tasks of a scrape_all_sites
\* call execute, however many were submitted, and when the call has returned
\* every submitted task is finished.
PoolBounded ==
    /\ Cardinality(TasksIn("running")) <= max_workers
    /\ poolpc = "returned" => \A i \in Tasks : task[i] = "done"

\* C18 witness: max_workers tasks execute while another submitted task waits.
PoolFullSeen ==
    /\ Cardinality(TasksIn("running")) = max_workers
    /\ TasksIn("queued") # {}

\* The call was _parse_date("N unit ago") for a numeral N and a unit of units.
AgoCall(units) ==
    /\ parsed # NotParsed
    /\ Len(date_string) = 3
    /\ IsInt(date_string[1])
    /\ date_string[2] \in units
    /\ date_string[3] = "ago"

\* C19 as stated: _parse_date("N days ago") is the start of the day N days
\* before now, as for "today" and "yesterday"; a week counts 7 days and a
\* month 30.
RelativeDatesTruncated ==
    /\ AgoCall(DayUnits) => parsed = Date(date_now.day - IntOf(date_string[1]), 0)
    /\ AgoCall(WeekUnits) => parsed = Date(date_now.day - IntOf(date_string[1]) * 7, 0)
    /\ AgoCall(MonthUnits) => parsed = Date(date_now.day - IntOf(date_string[1]) * 30, 0)
    /\ parsed # NotParsed /\ date_string = <<"today">> => parsed = Date(date_now.day, 0)
    /\ parsed # NotParsed /\ date_string = <<"yesterday">>
           => parsed = Date(date_now.day - 1, 0)

\* C19, amended: _parse_date("N unit ago") is now minus N, 7N or 30N days
\* and keeps the time of day of now; only "today" and "yesterday" are cut to
\* the start of the day, and a string it cannot read gives None.
RelativeDatesKeepTime ==
    /\ \A u \in Units :
          AgoCall({u}) =>
              parsed = Date(date_now.day - IntOf(date_string[1]) * DaysPer(u), date_now.tod)
    /\ parsed # NotParsed /\ date_string = <<"today">> => parsed = Date(date_now.day, 0)
    /\ parsed # NotParsed /\ date_string = <<"yesterday">>
           => parsed = Date(date_now.day - 1, 0)
    /\ parsed # NotParsed /\ date_string = <<"not", "a", "date">> => parsed = NoDate

\* "2 days ago" was parsed at an instant that is not midnight.
RelativeDateSeen ==
    /\ AgoCall(DayUnits)
    /\ date_string[1] = "2"
    /\ date_now.tod # 0
    /\ parsed.state = "date"

\* The call of "main" that has just returned is a get_job_listings whose query
\* went the given way.
Queried(outcome) ==
    /\ pc["main"] = "done"
    /\ site["main"] = "get_job_listings"
    /\ query.outcome = outcome

\* The rows of the store the filters of the last query keep.
Kept == Matching(store, query.filters)

\* C20: get_job_listings returns at most limit rows, all of them rows of the
\* store that satisfy the filters, in non-increasing scraped_date order, and
\* they are the rows from position offset on of that ordering (as many as the
\* ordering has from there, up to limit); the call leaves the store as it was;
\* a query that fails gives the empty list.
QueryBoundedOrdered ==
    /\ [](Queried("ok") =>
            LET rows == ret["main"].val
                n == Cardinality(Kept)
                rest == IF n > query.offset THEN n - query.offset ELSE 0
            IN  /\ ret["main"].kind = "list"
                /\ Len(rows) <= query.limit
                /\ Len(rows) = (IF rest < query.limit THEN rest ELSE query.limit)
                /\ \A k \in 1..Len(rows) : \E i \in Kept : store[i] = rows[k]
                /\ \A a, b \in 1..Len(rows) :
                      a < b => rows[a].scraped_date >= rows[b].scraped_date
                /\ \A k \in 1..Len(rows) :
                      /\ Cardinality({i \in Kept :
                             store[i].scraped_date > rows[k].scraped_date})
                            <= query.offset + k - 1
                      /\ Cardinality({i \in Kept :
                             store[i].scraped_date >= rows[k].scraped_date})
                            >= query.offset + k)
    /\ [](Queried("queryfail") => ret["main"] = Returned(<<>>))
    /\ [][site'["main"] = "get_job_listings" /\ pc["main"] = "idle" => store' = store]_vars

\* C20 witness: the second row, and only it, of two or more kept rows that
\* were not all scraped at the same time was returned.
QueryPageSeen ==
    /\ Queried("ok")
    /\ query.limit = 1
    /\ query.offset = 1
    /\ Cardinality(Kept) >= 2
    /\ \E i, j \in Kept : store[i].scraped_date # store[j].scraped_date
    /\ Len(ret["main"].val) = 1

----------------------------------------------------------------------------
(* Further properties of the adapters *)

\* C21: a _get_selenium_driver call made while a driver is cached returns it
\* and starts no process, and at most one browser process started by the
\* adapter is alive at any time.
SingleBrowser ==
    /\ call.op = "acquire" /\ call.had => call.out = "cached" /\ ~call.started
    /\ procs <= 1

\* The first half of C21 alone: with a driver cached, _get_selenium_driver and
\* _get_page_content start no process, and the adapter holds at most one driver.
CachedDriverReused ==
    call.op \in {"acquire", "fetch"} /\ call.had => ~call.started /\ driver # None

\* A second browser process was started while one was still alive.
SecondBrowserSeen ==
    /\ procs = 2
    /\ call.started

\* C22 as stated: once _close_selenium_driver has run on an adapter that had a
\* browser, no later call gives the adapter a driver again or starts a
\* process; and it changes nothing on an adapter without a browser.
ClosedIsTerminal ==
    /\ [](released => driver = None)
    /\ [][released => procs' <= procs]_vars
    /\ [][call'.op = "release" /\ driver = None =>
             driver' = None /\ procs' = procs /\ released' = released]_vars

\* C22, amended: _close_selenium_driver leaves the adapter without a driver,
\* as before its first browser; the next _get_selenium_driver or browser
\* fetch starts a new process and caches its driver unless the start fails;
\* on an adapter without a driver _close_selenium_driver changes nothing.
ClosedReopens ==
    /\ [](call.op = "release" => driver = None)
    /\ [](/\ call.op \in {"acquire", "fetch"}
          /\ (call.op = "fetch" => UsesSelenium)
          /\ ~call.had
          /\ call.out # "startfail"
          => call.started /\ driver # None)
    /\ [][call'.op = "release" /\ driver = None =>
             driver' = None /\ procs' = procs /\ released' = released]_vars

\* C22 witness: a browser runs again on an adapter whose earlier browser was
\* closed.
ReopenedSeen ==
    /\ released
    /\ driver # None
    /\ call.started

\* C23: every _get_page_content call, however it ends, runs the politeness
\* sleep before it returns, so the adapter never issues a request while its
\* previous request has had no sleep after it.
SleepAfterEveryFetch ==
    /\ call.op = "fetch" => call.slept
    /\ call.op = "fetch" /\ Issued(call.out) => ~call.hot

\* Within one scrape() a request was issued right after a request that failed,
\* with no sleep between the two.
HotRequestSeen ==
    /\ call.op = "fetch"
    /\ Issued(call.out)
    /\ call.hot
    /\ apc = "items"
    /\ Len(acc) >= 2

\* What the code does for C23's case: the sleep runs exactly in the calls that
\* return a page.
SleepAfterSuccessOnly ==
    call.op = "fetch" => (call.slept <=> call.out = "ok")

\* scrape() has come to the end of an index page that is not short, with
\* pagination enabled and the page limit not reached.
FullPageDone ==
    /\ apc = "items"
    /\ idx > found
    /\ found >= LastPageBelow
    /\ cfg.pagination
    /\ page_num + 1 <= cfg.max_pages

\* An index page is requested in this step.
IndexRequest == requests' = requests + 1

\* C24 as stated, for every adapter: page 1 is fetched at job_listings_url; a
\* page n >= 2 is fetched only with pagination enabled, and then, when
\* n <= max_pages_per_site and page n-1 was not short, it is fetched at the
\* pagination pattern filled with n; with pagination disabled no page >= 2 is
\* requested.
PaginationRuleEveryAdapter ==
    /\ [][IndexRequest /\ requests' = 1 => call'.url = ListingsUrl]_vars
    /\ [][IndexRequest /\ requests' >= 2 => cfg.pagination]_vars
    /\ [][FullPageDone => apc' = "page" /\ page_num' = page_num + 1]_vars
    /\ [][apc = "page" /\ page_num >= 2 /\ page_num <= cfg.max_pages /\ cfg.pagination
             => IndexRequest /\ call'.url = PageUrl(page_num)]_vars
    /\ [](~cfg.pagination => requests <= 1)

\* C24, amended: the rule holds for FlexJobsScraper; WeWorkRemotelyScraper
\* fetches job_listings_url and never requests a page >= 2, whatever the
\* pagination settings.
PaginationRuleFlexJobs ==
    /\ [][IndexRequest /\ requests' = 1 => call'.url = ListingsUrl]_vars
    /\ [][IndexRequest /\ requests' >= 2 => cfg.pagination /\ akind = "FlexJobs"]_vars
    /\ [][FullPageDone /\ akind = "FlexJobs" => apc' = "page" /\ page_num' = page_num + 1]_vars
    /\ [][apc = "page" /\ page_num >= 2 /\ page_num <= cfg.max_pages /\ cfg.pagination
             => IndexRequest /\ call'.url = [from |-> "pagination.pattern",
                                             page_num |-> page_num]]_vars
    /\ [](~cfg.pagination \/ akind = "We Work Remotely" => requests <= 1)

\* C24 witness: FlexJobsScraper has requested page 2 at the pattern filled
\* with 2, after a first page that was not short.
SecondPageSeen ==
    /\ akind = "FlexJobs"
    /\ requests = 2
    /\ call.op = "fetch"
    /\ call.url = [from |-> "pagination.pattern", page_num |-> 2]
    /\ Len(acc) >= LastPageBelow - MaxVaried

\* C25: a listing whose detail page could not be fetched is emitted all the
\* same, with the fields of the index page and without a description, and
\* scrape() goes on with the next container exactly as after a detail page
\* that came back.
DetailFailureDegradesOne ==
    /\ [][apc = "detail" =>
             /\ Len(acc') = Len(acc) + 1
             /\ \A k \in 1..Len(acc) : acc'[k] = acc[k]
             /\ acc'[Len(acc')].title = job_listing.title
             /\ acc'[Len(acc')].url = job_listing.url
             /\ acc'[Len(acc')].page = job_listing.page
             /\ acc'[Len(acc')].idx = job_listing.idx
             /\ (call'.out # "ok" => ~acc'[Len(acc')].description)
             /\ apc' = "items"
             /\ idx' = idx + 1
             /\ page_num' = page_num
             /\ found' = found]_vars
    /\ [](\A k \in 1..Len(acc) : acc[k].description => acc[k].detail = "ok")

\* C25 witness: a listing whose detail fetch failed was emitted without a
\* description, and a later listing of the same scrape() with one.
DegradedListingSeen ==
    \E j, k \in 1..Len(acc) :
        /\ j < k
        /\ acc[j].detail = "getfail"
        /\ ~acc[j].description
        /\ acc[k].detail = "ok"
        /\ acc[k].description

----------------------------------------------------------------------------
(* Further properties of the manager under concurrent use *)

\* The threads that are inside scrape() of the adapter registered for a site.
InScrape(s) == {t \in Threads : pc[t] = "scrape" /\ site[t] = s}

\* C26: no adapter's scrape(), and so no adapter's browser handle or HTTP
\* session, is in use by two threads at the same time.
AdapterNotShared ==
    \A s \in scrapers : Cardinality(InScrape(s)) <= 1

\* Two threads are inside scrape() of the same adapter.
AdapterSharedSeen ==
    \E s \in scrapers : Cardinality(InScrape(s)) = 2

\* Two tasks of one scrape_all_sites call whose lists share a url have both
\* been through their store transaction, which committed or was refused by
\* the unique constraint.
Raced(a, b) ==
    /\ a # b
    /\ persist[a].state \in {"committed", "integrity"}
    /\ persist[b].state \in {"committed", "integrity"}
    /\ UrlsOf(persist[a].job_listings) \cap UrlsOf(persist[b].job_listings) # {}

\* C27 as stated: however the two transactions interleave, the shared url ends
\* with exactly one row, written by the batch that committed last, and neither
\* batch loses its other listings: every url of either batch has its row.
RaceLastWriterWins ==
    /\ [](\A a, b \in scrapers :
            Raced(a, b) =>
                \A u \in UrlsOf(persist[a].job_listings) \cup UrlsOf(persist[b].job_listings) :
                    Cardinality(RowsFor(store, u)) = 1)
    /\ [][\A t \in scrapers : CommitStep(t) =>
                \A u \in UrlsOf(persist[t].job_listings) :
                    \A i \in RowsFor(store', u) :
                        \A k \in KeysPresent(LastFor(persist[t].job_listings, u)) :
                            store'[i][k] = LastFor(persist[t].job_listings, u)[k]]_vars

\* C27, amended: the shared url never has more than one row.  A transaction
\* that added the url as a new row while the other one committed it is refused
\* at its commit and leaves the table as it is, so that the whole batch is
\* lost, its other listings included; a transaction that commits leaves one
\* row for each of its urls, with its values in the columns its listing carries.
RaceFirstCommitWins ==
    /\ [](\A u \in Urls : Cardinality(RowsFor(store, u)) <= 1)
    /\ [][\A t \in scrapers :
            persist[t].state = "open" /\ persist'[t].state = "integrity" =>
                /\ store' = store
                /\ \E u \in UrlsOf(persist[t].job_listings) : RowsFor(store, u) # {}]_vars
    /\ [][\A t \in scrapers : CommitStep(t) =>
            \A u \in UrlsOf(persist[t].job_listings) :
                /\ Cardinality(RowsFor(store', u)) = 1
                /\ \A i \in RowsFor(store', u) :
                      \A k \in KeysPresent(LastFor(persist[t].job_listings, u)) :
                          store'[i][k] = LastFor(persist[t].job_listings, u)[k]]_vars

\* C27 witness: of two tasks that raced on a url one committed and the other
\* was refused, and a listing of the refused batch on another url has no row.
RaceLossSeen ==
    \E a, b \in scrapers :
        /\ Raced(a, b)
        /\ persist[a].state = "committed"
        /\ persist[b].state = "integrity"
        /\ \E u \in UrlsOf(persist[b].job_listings) :
              /\ u \notin UrlsOf(persist[a].job_listings)
              /\ RowsFor(store, u) = {}

----------------------------------------------------------------------------
(* Further properties of the store *)

\* The persist call of t ended in the except clause: a statement of the try
\* block or the commit raised and the session was rolled back.
PersistRolledBack(t) == persist[t].state \in {"rolledback", "integrity"}

\* C28: when the persist step of scrape_site fails and rolls back, the table
\* is left as it was and scrape_site still returns the adapter's full list,
\* not an empty one: the returned list does not say what is in the store.
ReturnedNotPersisted ==
    /\ [](\A t \in Threads :
            (pc[t] = "done" /\ PersistRolledBack(t)) =>
                /\ ret[t] = Returned(persist[t].job_listings)
                /\ ret[t].val = job_listings[t])
    /\ [][\A t \in Threads :
            (~PersistRolledBack(t) /\ PersistRolledBack(t)') => store' = store]_vars

\* C28 witness: scrape_site returned a full list after its persist step was
\* rolled back, and the table has none of the returned urls.
ReturnedNotPersistedSeen ==
    \E t \in Threads :
        /\ pc[t] = "done"
        /\ PersistRolledBack(t)
        /\ Len(ret[t].val) = MaxBatch
        /\ \A u \in UrlsOf(ret[t].val) : RowsFor(store, u) = {}

\* The listings of a list that carry url u.
ListingsFor(batch, u) == {i \in 1..Len(batch) : batch[i].url = u}

\* Columns the manager sets on insert and no adapter puts in a listing dict.
ManagerColumns == {"scraped_date", "source_site", "is_active"}

\* C29: rows are never removed or moved (a row's id is its place in the
\* table), and a step changes a column of an existing row only if it is the
\* commit of a persist call whose list has a listing with the row's url and a
\* value under that column's key.  So url, scraped_date, source_site and
\* is_active of an existing row, and every column the incoming listings have
\* no key for, keep their values, whatever site the persist call names.
UpdateFrame ==
    [][/\ Len(store') >= Len(store)
       /\ \A i \in 1..Len(store) :
            /\ store'[i].url = store[i].url
            /\ \A k \in ManagerColumns : store'[i][k] = store[i][k]
            /\ \A k \in Columns :
                 store'[i][k] # store[i][k] =>
                    \E t \in Threads :
                        /\ CommitStep(t)
                        /\ \E j \in ListingsFor(persist[t].job_listings, store[i].url) :
                              k \in KeysPresent(persist[t].job_listings[j])]_vars

\* C29 witness: a persist call naming another site than the row's has
\* committed a listing without description for the row's url: the row has the
\* new title, and the description and source_site it had.
UpdateFrameSeen ==
    \E t \in Threads, i \in 1..Len(store) :
        /\ persist[t].state = "committed"
        /\ persist[t].site_name # store[i].source_site
        /\ ListingsFor(persist[t].job_listings, store[i].url) # {}
        /\ \A j \in ListingsFor(persist[t].job_listings, store[i].url) :
              /\ persist[t].job_listings[j].description = Absent
              /\ persist[t].job_listings[j].title = store[i].title
        /\ store[i].description \in Descs

\* The persist call of t has gone through its list and stands at the commit.
AtCommit(t) == pc[t] = "loop" /\ sess[t].i > Len(persist[t].job_listings)

\* The urls a list carries more than once.
Repeated(batch) == {u \in UrlsOf(batch) : Cardinality(ListingsFor(batch, u)) > 1}

\* C30: a persist call whose list repeats a url the table does not have
\* reaches its commit with one pending row for that url, so the uniqueness
\* constraint does not refuse it; when it commits, the table has exactly one
\* row for the url, with the value of the later listing under every key that
\* listing carries.
DuplicateInBatchCommits ==
    /\ [](\A u \in Urls :
            (AtCommit("main") /\ u \in Repeated(persist["main"].job_listings)) =>
                /\ UniqueOk(store, sess["main"].ins)
                /\ (RowsFor(store, u) = {} =>
                        Cardinality(RowsFor(sess["main"].ins, u)) = 1))
    /\ [](persist["main"].state # "integrity")
    /\ [][\A u \in Repeated(persist["main"].job_listings) :
            CommitStep("main") =>
                /\ Cardinality(RowsFor(store', u)) = 1
                /\ \A i \in RowsFor(store', u) :
                     \A k \in KeysPresent(LastFor(persist["main"].job_listings, u)) :
                        store'[i][k] = LastFor(persist["main"].job_listings, u)[k]]_vars

\* C30 witness: the first persist call, on an empty table, has committed a
\* list of two listings with one url and different titles; the table has one
\* row, with the later title.
DuplicateInBatchSeen ==
    /\ clock = 1
    /\ persist["main"].state = "committed"
    /\ Len(persist["main"].job_listings) = 2
    /\ persist["main"].job_listings[1].url = persist["main"].job_listings[2].url
    /\ persist["main"].job_listings[1].title # persist["main"].job_listings[2].title
    /\ Len(store) = 1
    /\ store[1].title = persist["main"].job_listings[2].title

====
